---- MODULE Spec2Model ----
(***************************************************************************)
(* A model of lttb (src/src/lib.rs), the largest-triangle-three-buckets    *)
(* downsampling of a series of DataPoints.                                 *)
(*                                                                         *)
(* Numbers.  A usize is an integer; a negative integer k stands for the    *)
(* wrapped value 2^64 + k, which is what `threshold - 2` yields in a build *)
(* without overflow checks.  T is f32: `every` and its products with the   *)
(* loop counter are floats of MantissaBits bits, rounded to nearest, ties  *)
(* to even, as the code rounds them.  Coordinates are integers; sums,      *)
(* averages and areas are rationals [num, den] with den > 0, and den = 0   *)
(* stands for the float that is not a finite number (0 / 0).  The series   *)
(* below are chosen so that no sum, average or area of theirs is rounded   *)
(* in f32 (nor in f64): the rationals are the floats of the code.          *)
(***************************************************************************)
EXTENDS Integers, Sequences, FiniteSets, TLC

\* Bounds of the model.
MaxLen == 5
MaxY == 2

\* The iterations of the bucket loop that are followed when its bound is a
\* wrapped usize.
MaxIter == 3

VARIABLES data, threshold, pc, sampled, every, hi, a, i, result, trace

vars == <<data, threshold, pc, sampled, every, hi, a, i, result, trace>>

----------------------------------------------------------------------------
\* The data model.

DataPoint(x, y) == [x |-> x, y |-> y]

\* A rational, and the float values of the code it stands for.
Rat(num, den) == [num |-> num, den |-> den]

Zero == Rat(0, 1)

MinusOne == Rat(-1, 1)

Half == Rat(1, 2)

IsNaN(r) == r.den = 0

Abs(k) == IF k < 0 THEN -k ELSE k

\* T::from(k) of a usize or an integer literal: always Some for a float.
FromInt(k) == Rat(k, 1)

RAdd(r, s) == Rat(r.num * s.den + s.num * r.den, r.den * s.den)

RSub(r, s) == Rat(r.num * s.den - s.num * r.den, r.den * s.den)

RMul(r, s) == Rat(r.num * s.num, r.den * s.den)

\* r / s for s >= 0: a zero divisor gives a float that is not finite.
RDiv(r, s) == Rat(r.num * s.den, r.den * s.num)

RAbs(r) == Rat(Abs(r.num), r.den)

\* The float comparison r > s: false when either side is NaN.
RGreater(r, s) == ~IsNaN(r) /\ ~IsNaN(s) /\ r.num * s.den > s.num * r.den

\* Option<usize>.
SomeV(v) == [ok |-> TRUE, v |-> v]

NoneV == [ok |-> FALSE, v |-> 0]

----------------------------------------------------------------------------
\* The steps of lttb.

\* The short circuit.
NothingToDoStrict(n, t) == t > n \/ t = 0

NothingToDo(n, t) == t >= n \/ t = 0

\* usize subtraction in a build without overflow checks.
WrappingSub(m, k) == m - k

\* The precision of T, f32::MANTISSA_DIGITS.
MantissaBits == 24

\* num / den rounded to the nearest integer, ties to even.
RoundDiv(num, den) ==
    LET q == num \div den
        r == num % den
    IN  IF 2 * r < den THEN q
        ELSE IF 2 * r > den THEN q + 1
        ELSE IF q % 2 = 0 THEN q ELSE q + 1

\* The least e >= 0 with num < den * 2^e.
RECURSIVE ExpUp(_, _, _)
ExpUp(num, den, e) == IF num < den * 2^e THEN e ELSE ExpUp(num, den, e + 1)

\* The greatest f >= 0 with num * 2^f < den.
RECURSIVE ExpDown(_, _, _)
ExpDown(num, den, f) == IF num * 2^(f + 1) < den THEN ExpDown(num, den, f + 1) ELSE f

\* A float: the finite value m / 2^s, or a value below 2^-50 ("tiny"), or
\* an infinity, or NaN.
Float(cls, m, s) == [cls |-> cls, m |-> m, s |-> s]

\* The float num / den of two usize operands converted to T.
FDiv(num, den) ==
    IF den = 0 THEN Float(IF num = 0 THEN "nan" ELSE "inf", 0, 0)
    ELSE IF den < 0 THEN Float(IF num = 0 THEN "finite" ELSE "tiny", 0, 0)
    ELSE IF num = 0 THEN Float("finite", 0, 0)
    ELSE LET s == IF num >= den THEN MantissaBits - ExpUp(num, den, 0)
                  ELSE MantissaBits + ExpDown(num, den, 0)
         IN  Float("finite", RoundDiv(num * 2^s, den), s)

\* The float T::from(k) * f of a usize k.
FMulInt(k, f) ==
    LET p == k * f.m
        r == ExpUp(p, 2^MantissaBits, 0)
    IN  IF r = 0 THEN Float("finite", p, f.s)
        ELSE Float("finite", RoundDiv(p, 2^r), f.s - r)

\* The integer part of a finite float.
Trunc(f) == IF f.s >= 0 THEN f.m \div 2^(f.s) ELSE f.m * 2^(-(f.s))

\* The bucket size: T::from(n - 2) / T::from(threshold - 2).  The float
\* division does not fail on a zero divisor.
EveryOf(n, sub) == FDiv(n - 2, sub)

\* cast::<T, usize>(T::from(k) * every): the product truncated, None when it
\* is not a finite number.
Cast(k, ev) ==
    IF ev.cls \in {"inf", "nan"} THEN NoneV
    ELSE IF ev.cls = "tiny" THEN SomeV(0)
    ELSE SomeV(Trunc(FMulInt(k, ev)))

\* The bound of the bucket loop.
LoopBoundOff(t_sub) == t_sub + 1

LoopBound(t_sub) == t_sub

\* i < bound, for a bound that may be a wrapped usize.
BelowBound(k, bound) == IF bound < 0 THEN TRUE ELSE k < bound

\* The sum of the points' coordinates c over the indices from .. to - 1.
RECURSIVE SumRange(_, _, _, _)
SumRange(d, c, from, to) ==
    IF from >= to THEN Zero
    ELSE RAdd(FromInt(IF c = "x" THEN d[from + 1].x ELSE d[from + 1].y),
              SumRange(d, c, from + 1, to))

\* The area of the triangle of point a, point p and the average point.
TriangleAreaSwapped(pa, p, avg_x, avg_y) ==
    RMul(RAbs(RSub(RMul(RSub(FromInt(pa.x), avg_x), FromInt(p.x - pa.x)),
                   RMul(FromInt(pa.x - p.x), RSub(avg_y, FromInt(pa.y))))),
         Half)

TriangleArea(pa, p, avg_x, avg_y) ==
    RMul(RAbs(RSub(RMul(RSub(FromInt(pa.x), avg_x), FromInt(p.y - pa.y)),
                   RMul(FromInt(pa.x - p.x), RSub(avg_y, FromInt(pa.y))))),
         Half)

\* area > max_area.
LargerOrEqual(area, max_area) == RGreater(area, max_area) \/ area = max_area

Larger(area, max_area) == RGreater(area, max_area)

\* The loop over the bucket: the index of the point kept.
RECURSIVE SelectFrom(_, _, _, _, _, _, _, _)
SelectFrom(d, pa, avg_x, avg_y, idx, range_to, max_area, next_a) ==
    IF idx >= range_to THEN next_a
    ELSE LET area == TriangleArea(pa, d[idx + 1], avg_x, avg_y)
         IN  IF Larger(area, max_area)
             THEN SelectFrom(d, pa, avg_x, avg_y, idx + 1, range_to, area, idx)
             ELSE SelectFrom(d, pa, avg_x, avg_y, idx + 1, range_to, max_area, next_a)

\* The first index of the bucket.
RangeOffsNoSkip(c) == c

RangeOffs(c) == c + 1

\* The end of the averaging range, kept within the series.
ClampEnd(end, n) == IF end >= n THEN n ELSE end

\* One iteration of the bucket loop from point a: its outcome and its locals.
Iteration(d, ev, pa, k) ==
    LET n == Len(d)
        c0 == Cast(k, ev)
        c1 == Cast(k + 1, ev)
        c2 == Cast(k + 2, ev)
    IN  IF ~c0.ok \/ ~c1.ok \/ ~c2.ok THEN [kind |-> "Err"]
        ELSE LET avg_range_start == c1.v + 1
                 avg_range_end == ClampEnd(c2.v + 1, n)
                 range_offs == RangeOffs(c0.v)
                 range_to == c1.v + 1
             IN  IF \/ avg_range_end < avg_range_start
                    \/ range_to < range_offs
                    \/ range_to > n
                 THEN [kind |-> "Panic"]
                 ELSE LET len == FromInt(avg_range_end - avg_range_start)
                          avg_x == RDiv(SumRange(d, "x", avg_range_start, avg_range_end), len)
                          avg_y == RDiv(SumRange(d, "y", avg_range_start, avg_range_end), len)
                          next_a == SelectFrom(d, d[pa + 1], avg_x, avg_y, range_offs,
                                               range_to, MinusOne, range_offs)
                      IN  IF next_a >= n THEN [kind |-> "Panic"]
                          ELSE [kind |-> "Ok", next_a |-> next_a,
                                range_offs |-> range_offs, range_to |-> range_to,
                                avg_range_start |-> avg_range_start,
                                avg_range_end |-> avg_range_end]

\* The last point pushed.
LastPointFirst(d) == d[1]

LastPoint(d) == d[Len(d)]

\* The bucket loop and the last push, as a function.
RECURSIVE Run(_, _, _, _, _, _)
Run(d, ev, bound, pa, k, acc) ==
    IF ~BelowBound(k, bound) THEN [kind |-> "Some", val |-> Append(acc, LastPoint(d))]
    ELSE IF bound < 0 THEN [kind |-> "Abort"]
    ELSE LET it == Iteration(d, ev, pa, k)
         IN  IF it.kind # "Ok" THEN [kind |-> it.kind]
             ELSE Run(d, ev, bound, it.next_a, k + 1, Append(acc, d[it.next_a + 1]))

\* lttb as a function of its arguments.  "Abort" is the call that does not
\* return: the overflow panic, or the loop over a wrapped bound.
Lttb(d, t) ==
    IF NothingToDo(Len(d), t) THEN [kind |-> "None"]
    ELSE IF t < 2 THEN [kind |-> "Abort"]
    ELSE Run(d, EveryOf(Len(d), t - 2), LoopBound(t - 2), 0, 0, <<d[1]>>)

----------------------------------------------------------------------------
\* The inputs.

YVals == 0 .. MaxY

\* Series in x order: the point of index k has x = k.
OrderedSeries ==
    UNION {{[k \in 1 .. n |-> DataPoint(k - 1, f[k])] : f \in [1 .. n -> YVals]} :
           n \in 0 .. MaxLen}

\* Series of points of the unit square, in any order, with repeats.
SquareSeries ==
    UNION {[1 .. n -> {DataPoint(x, y) : x \in {0, 1}, y \in {0, 1}}] : n \in 0 .. MaxLen}

\* The series of tests::lttb_test.
TestSeries ==
    <<DataPoint(0, 10), DataPoint(1, 12), DataPoint(2, 8), DataPoint(3, 10),
      DataPoint(4, 12)>>

TestExpected == <<DataPoint(0, 10), DataPoint(2, 8), DataPoint(4, 12)>>

\* Points of a line of slope 2 / 3 with uneven gaps, and peaks and dips;
\* the coordinates are multiples of 12: every average is an integer.
SlopeSeries ==
    <<DataPoint(0, 12), DataPoint(36, 36), DataPoint(72, 60), DataPoint(108, 84),
      DataPoint(180, 132), DataPoint(216, 156), DataPoint(252, 180)>>

PeakSeries ==
    <<DataPoint(0, 0), DataPoint(12, 60), DataPoint(24, 12), DataPoint(36, 12),
      DataPoint(48, 0), DataPoint(60, 84), DataPoint(72, 0), DataPoint(84, 24)>>

NamedSeries == {TestSeries, SlopeSeries, PeakSeries}

\* Long series of one y, and the thresholds they are sampled with.
FlatSeries(n) == [k \in 1 .. n |-> DataPoint(k - 1, 7)]

LongSeries == {FlatSeries(15), FlatSeries(28)}

LongThresholds == {13, 24}

Series == OrderedSeries \cup SquareSeries \cup NamedSeries

Thresholds == 0 .. MaxLen + 1

----------------------------------------------------------------------------
\* The state machine: one call of lttb.

Pending == [kind |-> "Pending"]

Init ==
    /\ \/ data \in Series /\ threshold \in Thresholds
       \/ data \in LongSeries /\ threshold \in LongThresholds
    /\ pc = "start"
    /\ sampled = <<>>
    /\ every = EveryOf(2, 1)
    /\ hi = 0
    /\ a = 0
    /\ i = 0
    /\ result = Pending
    /\ trace = <<>>

\* Nothing to do.
ShortCircuit ==
    /\ pc = "start"
    /\ NothingToDo(Len(data), threshold)
    /\ pc' = "done"
    /\ result' = [kind |-> "None"]
    /\ UNCHANGED <<data, threshold, sampled, every, hi, a, i, trace>>

\* The bucket size, the first point.
Setup ==
    /\ pc = "start"
    /\ ~NothingToDo(Len(data), threshold)
    /\ threshold >= 2
    /\ every' = EveryOf(Len(data), threshold - 2)
    /\ hi' = LoopBound(threshold - 2)
    /\ a' = 0
    /\ sampled' = <<data[1]>>
    /\ pc' = "loop"
    /\ UNCHANGED <<data, threshold, i, result, trace>>

\* threshold - 2 overflows, build with overflow checks: the call panics.
SetupOverflowPanic ==
    /\ pc = "start"
    /\ ~NothingToDo(Len(data), threshold)
    /\ threshold < 2
    /\ pc' = "done"
    /\ result' = [kind |-> "Panic"]
    /\ UNCHANGED <<data, threshold, sampled, every, hi, a, i, trace>>

\* threshold - 2 overflows, build without overflow checks: it wraps.
SetupOverflowWrap ==
    /\ pc = "start"
    /\ ~NothingToDo(Len(data), threshold)
    /\ threshold < 2
    /\ every' = EveryOf(Len(data), WrappingSub(threshold, 2))
    /\ hi' = LoopBound(WrappingSub(threshold, 2))
    /\ a' = 0
    /\ sampled' = <<data[1]>>
    /\ pc' = "loop"
    /\ UNCHANGED <<data, threshold, i, result, trace>>

\* One iteration of the bucket loop.
LoopIter ==
    /\ pc = "loop"
    /\ BelowBound(i, hi)
    /\ hi < 0 => i < MaxIter
    /\ LET it == Iteration(data, every, a, i)
       IN  IF it.kind = "Ok"
           THEN /\ sampled' = Append(sampled, data[it.next_a + 1])
                /\ a' = it.next_a
                /\ i' = i + 1
                /\ trace' = Append(trace, it)
                /\ UNCHANGED <<pc, result>>
           ELSE /\ pc' = "done"
                /\ result' = [kind |-> it.kind]
                /\ UNCHANGED <<sampled, a, i, trace>>
    /\ UNCHANGED <<data, threshold, every, hi>>

\* The last point, the result.
Finish ==
    /\ pc = "loop"
    /\ ~BelowBound(i, hi)
    /\ sampled' = Append(sampled, LastPoint(data))
    /\ result' = [kind |-> "Some", val |-> sampled']
    /\ pc' = "done"
    /\ UNCHANGED <<data, threshold, every, hi, a, i, trace>>

Next ==
    \/ ShortCircuit
    \/ Setup
    \/ SetupOverflowPanic
    \/ SetupOverflowWrap
    \/ LoopIter
    \/ Finish

Spec == Init /\ [][Next]_vars

----------------------------------------------------------------------------
\* The claims.

Done == pc = "done"

Downsampled == Done /\ result.kind = "Some"

None == [kind |-> "None"]

\* The indices of the points of the result: the first, the point of each
\* iteration, the last.
Picks ==
    <<0>> \o [k \in 1 .. Len(trace) |-> trace[k].next_a] \o <<Len(data) - 1>>

\* C1, as stated: with threshold >= n or threshold = 0 the call returns a
\* sequence, and the sequence is the input series.
C1_ReturnsInput ==
    (Done /\ (threshold >= Len(data) \/ threshold = 0))
        => (result.kind = "Some" /\ result.val = data)

\* C1, amended: with threshold >= n or threshold = 0 the call returns Ok(None)
\* at once: no error, no sequence, nothing sampled.
C1_ReturnsNone ==
    (pc # "start" /\ (threshold >= Len(data) \/ threshold = 0))
        => (Done /\ result = None /\ sampled = <<>> /\ trace = <<>>)

C1_Witness == Done /\ threshold = Len(data) /\ Len(data) = 3 /\ result = None

\* C2: with 2 <= threshold < n, the sequence a successful call returns has
\* exactly threshold points.
C2_Length ==
    (Downsampled /\ 2 <= threshold /\ threshold < Len(data))
        => Len(result.val) = threshold

C2_Witness == Downsampled /\ threshold = 4 /\ Len(data) = 5 /\ Len(result.val) = 4

\* C3: with 2 <= threshold < n, the first point of the result is the input
\* point of index 0 and the last is the input point of index n - 1.
C3_Endpoints ==
    (Downsampled /\ 2 <= threshold /\ threshold < Len(data))
        => /\ result.val[1] = data[1]
           /\ result.val[Len(result.val)] = data[Len(data)]

C3_Witness ==
    /\ Downsampled
    /\ threshold = 3
    /\ data[1] # data[Len(data)]
    /\ result.val[3] = data[Len(data)]

\* C4: with 2 <= threshold < n, the k-th point of the result is the input
\* point of the k-th index picked, and the indices picked increase strictly
\* from 0 to n - 1.
C4_Subsequence ==
    (Downsampled /\ 2 <= threshold /\ threshold < Len(data))
        => /\ Len(Picks) = Len(result.val)
           /\ \A k \in 1 .. Len(result.val) : result.val[k] = data[Picks[k] + 1]
           /\ \A k \in 1 .. Len(Picks) - 1 : Picks[k] < Picks[k + 1]

C4_Witness == Downsampled /\ threshold = 5 /\ Len(data) = 7 /\ Picks[4] < Picks[5]

\* C5, as stated: with threshold = 1 and n >= 2 the call takes the short
\* circuit: it returns the no-downsampling outcome without evaluating
\* threshold - 2, without entering the bucket loop, without a panic.
C5_ShortCircuit ==
    (threshold = 1 /\ Len(data) >= 2 /\ pc # "start")
        => (Done /\ result = None /\ trace = <<>>)

\* C6, as stated: with threshold = 2 and n >= 3 the call returns the
\* conversion error.
C6_ConversionError ==
    (Done /\ threshold = 2 /\ Len(data) >= 3) => result.kind = "Err"

\* C6, amended: with threshold = 2 and n >= 3 `every` is an infinity, the
\* bucket loop runs no iteration and the call returns the first and the last
\* point; it neither fails nor panics.
C6_FirstAndLast ==
    (pc # "start" /\ threshold = 2 /\ Len(data) >= 3)
        => /\ every.cls = "inf"
           /\ trace = <<>>
           /\ result.kind \in {"Pending", "Some"}
           /\ Done => result.val = <<data[1], data[Len(data)]>>

C6_Witness == Downsampled /\ threshold = 2 /\ Len(data) = 4 /\ Len(result.val) = 2

\* floor(k * every), every the float (n - 2) / (threshold - 2).
SpecFloor(k) == Cast(k, EveryOf(Len(data), threshold - 2)).v

SelectionBucket(k) == (SpecFloor(k) + 1) .. SpecFloor(k + 1)

AveragingBucket(k) ==
    (SpecFloor(k + 1) + 1) ..
        (IF SpecFloor(k + 2) + 1 > Len(data) THEN Len(data) ELSE SpecFloor(k + 2) + 1) - 1

RECURSIVE SumX(_)
SumX(S) ==
    IF S = {} THEN 0
    ELSE LET j == CHOOSE j \in S : TRUE IN data[j + 1].x + SumX(S \ {j})

RECURSIVE SumY(_)
SumY(S) ==
    IF S = {} THEN 0
    ELSE LET j == CHOOSE j \in S : TRUE IN data[j + 1].y + SumY(S \ {j})

\* The area 0.5 * |(ax - avgx) * (py - ay) - (ax - px) * (avgy - ay)| of the
\* claim, times twice the size of the averaging bucket, for the sums of the
\* x and of the y of that bucket.
ScaledArea(pa, p, size, sum_x, sum_y) ==
    Abs((pa.x * size - sum_x) * (p.y - pa.y) - (pa.x - p.x) * (sum_y - pa.y * size))

\* The lowest index among the points of greatest area of selection bucket k.
GreatestFirst(pa, k) ==
    LET sel == SelectionBucket(k)
        avg == AveragingBucket(k)
        area == [idx \in sel |->
                    ScaledArea(pa, data[idx + 1], Cardinality(avg), SumX(avg), SumY(avg))]
    IN  CHOOSE idx \in sel :
            \A j \in sel : area[j] <= area[idx] /\ (area[j] = area[idx] => idx <= j)

\* C7: with 3 <= threshold < n, the i-th intermediate point of the result is
\* the point of greatest triangle area of selection bucket i, the one of
\* lowest index among equals, the area taken with the point emitted before and
\* the mean of the averaging bucket; the series of the test, with threshold 3,
\* gives [(0,10), (2,8), (4,12)].
C7_LargestTriangle ==
    /\ (Downsampled /\ 3 <= threshold /\ threshold < Len(data))
           => \A k \in 0 .. threshold - 3 :
                  /\ SelectionBucket(k) # {}
                  /\ AveragingBucket(k) # {}
                  /\ LET best == GreatestFirst(result.val[k + 1], k)
                     IN  /\ trace[k + 1].next_a = best
                         /\ result.val[k + 2] = data[best + 1]
    /\ (Done /\ data = TestSeries /\ threshold = 3)
           => result = [kind |-> "Some", val |-> TestExpected]

C7_Witness ==
    /\ Downsampled
    /\ threshold = 4
    /\ Len(data) = 8
    /\ Cardinality(SelectionBucket(1)) = 3
    /\ trace[2].next_a = 5

Collinear(d) ==
    \A p \in 1 .. Len(d) : \A q \in 1 .. Len(d) : \A r \in 1 .. Len(d) :
        (d[q].x - d[p].x) * (d[r].y - d[p].y) = (d[r].x - d[p].x) * (d[q].y - d[p].y)

\* C8, as stated: for a collinear series and 3 <= threshold < n the result
\* has threshold points and its i-th intermediate point is the input point of
\* index floor(i * (n - 2) / (threshold - 2)) + 1.
C8_ExactIndex ==
    (Downsampled /\ 3 <= threshold /\ threshold < Len(data) /\ Collinear(data))
        => /\ Len(result.val) = threshold
           /\ \A k \in 0 .. threshold - 3 :
                  trace[k + 1].next_a = (k * (Len(data) - 2)) \div (threshold - 2) + 1

\* C8, amended: for a collinear series and 3 <= threshold < n the result has
\* threshold points and its i-th intermediate point is the first point of its
\* selection bucket, the input point of index trunc(i * every) + 1 for the
\* float every and the float product of the code.
C8_FirstOfBucket ==
    (Downsampled /\ 3 <= threshold /\ threshold < Len(data) /\ Collinear(data))
        => /\ Len(result.val) = threshold
           /\ \A k \in 0 .. threshold - 3 :
                  /\ trace[k + 1].next_a = trace[k + 1].range_offs
                  /\ trace[k + 1].next_a = SpecFloor(k) + 1
                  /\ result.val[k + 2] = data[SpecFloor(k) + 2]

C8_Witness ==
    /\ Downsampled
    /\ Collinear(data)
    /\ threshold = 3
    /\ Len(data) = 5
    /\ data[2] # data[3]
    /\ result.val[2] = data[2]

\* C9, as stated: for some series (that of the call or another) and some
\* threshold, lttb applied with the same threshold to the sequence lttb
\* returned selects other points.
C9_SomeReapplicationDiffers ==
    \E d \in {data} \cup Series \cup LongSeries :
    \E t \in {threshold} \cup Thresholds \cup LongThresholds :
        /\ Lttb(d, t).kind = "Some"
        /\ Lttb(Lttb(d, t).val, t).kind = "Some"
        /\ Lttb(Lttb(d, t).val, t).val # Lttb(d, t).val

\* C9, amended: lttb applied with the same threshold to a sequence lttb
\* returned takes the short circuit and returns Ok(None): it selects no point.
C9_ReapplicationShortCircuits ==
    Downsampled => Lttb(result.val, threshold) = None

C9_Witness ==
    /\ Downsampled
    /\ threshold = 4
    /\ Len(data) = 7
    /\ result.val # data
    /\ Lttb(result.val, threshold) = None

\* The products of the loop counter and every are exact.
ExactArithmetic ==
    \A k \in 0 .. threshold - 1 :
        Cast(k, every) = SomeV((k * (Len(data) - 2)) \div (threshold - 2))

\* C10: with 3 <= threshold < n and exact arithmetic, every iteration has
\* 1 <= range_offs < range_to = avg_range_start < avg_range_end <= n and
\* range_to <= n - 1, next_a is a point of its selection bucket, the selection
\* buckets tile 1 .. n - 2 and the call neither fails nor panics.
C10_Ranges ==
    (pc # "start" /\ 3 <= threshold /\ threshold < Len(data) /\ ExactArithmetic)
        => /\ result.kind \in {"Pending", "Some"}
           /\ \A k \in 1 .. Len(trace) :
                  /\ 1 <= trace[k].range_offs
                  /\ trace[k].range_offs < trace[k].range_to
                  /\ trace[k].range_to = trace[k].avg_range_start
                  /\ trace[k].avg_range_start < trace[k].avg_range_end
                  /\ trace[k].avg_range_end <= Len(data)
                  /\ trace[k].range_to <= Len(data) - 1
                  /\ trace[k].range_offs <= trace[k].next_a
                  /\ trace[k].next_a < trace[k].range_to
                  /\ trace[k].range_offs = IF k = 1 THEN 1 ELSE trace[k - 1].range_to
           /\ Done => /\ Len(trace) = threshold - 2
                      /\ trace[threshold - 2].range_to = Len(data) - 1

C10_Witness ==
    /\ pc = "loop"
    /\ threshold = 5
    /\ Len(data) = 8
    /\ ExactArithmetic
    /\ Len(trace) = 3
    /\ trace[3].range_to = 7

====
